---- MODULE Spec2Model ----
(***************************************************************************)
(* Operon: the offspring-production trial of the PlusRecombinator and the  *)
(* OffspringSelectionRecombinator                                          *)
(* (include/operon/operators/recombinator/plus.hpp, os.hpp).               *)
(*                                                                         *)
(* A double is modelled by an integer: the finite doubles are              *)
(* -FMax .. FMax, where FMax stands for numeric_limits<double>::max(),     *)
(* -FMax for numeric_limits<double>::lowest() and 1 for                    *)
(* numeric_limits<double>::min(), the smallest positive normal value.      *)
(* The non-finite values are PosInf, NegInf and NaN; every ordered         *)
(* comparison with NaN is false, as in IEEE 754.                           *)
(*                                                                         *)
(* The second part models the postfix Tree and its SubtreeIterator         *)
(* (include/operon/core/tree.hpp, src/core/tree.cpp).                      *)
(*                                                                         *)
(* The third part models TinyCostFunction::Evaluate                        *)
(* (include/operon/nnls/tiny_cost_function.hpp) on a linear functor, and   *)
(* the last part a driver that runs OffspringSelection trials under        *)
(* fairness.                                                               *)
(***************************************************************************)
EXTENDS Integers, Naturals, Sequences, FiniteSets, TLC

\* ---------------------------------------------------------------- bounds
FMax == 2          \* the largest finite double of the model
PopSize == 2       \* the largest population handed to Prepare
NumTrials == 2     \* the number of concurrently running trials
MaxEvals == 1      \* evaluations a run of Spec makes; SpecConc makes one more
MaxPressure == 1   \* the largest value given to MaxSelectionPressure(value)
SizeBits == 8      \* width of size_t in the model

\* ---------------------------------------------------------------- doubles
PosInf == FMax + 1
NegInf == 0 - (FMax + 1)
NaN == FMax + 2
FiniteVals == (0 - FMax) .. FMax
Doubles == FiniteVals \cup {PosInf, NegInf, NaN}

\* numeric_limits<double>::max() and numeric_limits<double>::min()
DblMax == FMax
DblMin == 1

\* std::isfinite
IsFinite(x) == x \in FiniteVals

\* operator< and operator> on double
Less(a, b) == a # NaN /\ b # NaN /\ a < b
Greater(a, b) == Less(b, a)

\* std::max(a, b) is (a < b) ? b : a, std::min(a, b) is (b < a) ? b : a
StdMax(a, b) == IF Less(a, b) THEN b ELSE a
StdMin(a, b) == IF Less(b, a) THEN b ELSE a

\* ---------------------------------------------------------------- state
VARIABLES
    recombinator,          \* "Plus" or "OS": the recombinator the driver uses
    Maximization,          \* TSelector::Maximization
    population,            \* Selector().Population()
    fitnessEvaluations,    \* the Evaluator's cumulative counter
    lastEvaluations,       \* OffspringSelectionRecombinator::lastEvaluations
    maxSelectionPressure,  \* OffspringSelectionRecombinator::maxSelectionPressure
    baseTerminate,         \* RecombinatorBase::Terminate()
    prepared,              \* Prepare has run at least once
    triggered,             \* triggered trials started since the last Prepare
    sincePrepare,          \* Evaluator calls made since the last Prepare
    trial,                 \* the locals of each running operator() call
    nodes,                 \* Tree::nodes_, the postfix node array of the tree
    tieOrder,              \* how this build's std::sort orders equivalent elements
    op,                    \* the last operation called on the tree
    before,                \* the node array as it was before that operation
    arg,                   \* the argument of that operation
    result,                \* what that operation returned
    functor,               \* TinyCostFunction::functor_, the wrapped residual functor
    parameters,            \* the parameters array given to Evaluate
    residuals,             \* the caller's residuals buffer
    jacobian,              \* the caller's jacobian buffer, <<>> when it is null
    frame,                 \* the locals of the running Evaluate call
    writes                 \* the writes Evaluate has made to the two buffers

\* the variables of the tree and those of the recombinators
treeVars == <<nodes, tieOrder, op, before, arg, result>>
costVars == <<functor, parameters, residuals, jacobian, frame, writes>>
recVars == <<recombinator, Maximization, population, fitnessEvaluations,
             lastEvaluations, maxSelectionPressure, baseTerminate, prepared,
             triggered, sincePrepare, trial>>

vars == <<recombinator, Maximization, population, fitnessEvaluations,
          lastEvaluations, maxSelectionPressure, baseTerminate, prepared,
          triggered, sincePrepare, trial, nodes, tieOrder, op, before,
          arg, result, functor, parameters, residuals, jacobian, frame,
          writes>>

\* the recombinators and the tree hold no cost function
NoCost ==
    /\ functor = [NumParameters |-> 0, NumResiduals |-> 0, A |-> <<>>, b |-> <<>>]
    /\ parameters = <<>>
    /\ residuals = <<>>
    /\ jacobian = <<>>
    /\ frame = [pc |-> "none"]
    /\ writes = [residuals |-> <<>>, jacobian |-> <<>>]

\* the recombinators hold no tree
NoTree ==
    /\ nodes = <<>>
    /\ tieOrder = "keep"
    /\ op = "none"
    /\ before = <<>>
    /\ arg = <<>>
    /\ result = <<>>

Trials == 1 .. NumTrials

\* TSelector::SelectableType: a genotype and its fitness component Idx
Individual(g, f) == [Genotype |-> g, Fitness |-> f]

\* a default-constructed individual: the empty tree
DefaultIndividual == Individual(0, 0)

\* std::nullopt and std::make_optional(x)
Nullopt == [has |-> FALSE, val |-> DefaultIndividual]
MakeOptional(x) == [has |-> TRUE, val |-> x]

\* the fitness of the individuals a driver hands to Prepare: negative, zero
\* and positive
ParentFitness == {0 - 1, 0, 1}

\* the populations a driver hands to Prepare: individual i carries genotype i
Populations ==
    UNION {{[i \in 1 .. n |-> Individual(i, f[i])] : f \in [1 .. n -> ParentFitness]}
           : n \in 0 .. PopSize}

\* the locals of a call that has not started
IdleTrial ==
    [pc |-> "idle", s1 |-> 0, s2 |-> 0, pCrossover |-> 0, pMutation |-> 0,
     doCrossover |-> FALSE, doMutation |-> FALSE,
     first |-> 0, second |-> 0, fit |-> 0, f |-> 0,
     child |-> DefaultIndividual,
     ret |-> Nullopt, samples |-> 0, selections |-> 0, crossovers |-> 0,
     mutations |-> 0, evaluations |-> 0, overlapped |-> FALSE]

InFlight(t) == trial[t].pc \in {"built", "evaluated"}

\* trials that have selected their parents and not yet called the Evaluator
Built == {u \in Trials : trial[u].pc = "built"}

\* ---------------------------------------------------------------- inputs
Samples == {0}                       \* uniformReal(random), in [0, 1): 0.0
Probabilities == {0, 1}              \* pCrossover, pMutation, in [0, 1]: 0.0, 1.0
ChildGenotypes == {PopSize + 1}      \* what Crossover and Mutator return:
                                     \* a tree that no parent has

\* ---------------------------------------------------------------- helpers
\* a trigger that also fires when the sample equals the probability
TriggerInclusive(sample, p) == sample <= p

\* uniformReal(random) < p
Trigger(sample, p) == sample < p

\* the parent's genotype is moved into the Mutator, which leaves the parent empty
PassParentToMutatorByMove(pop, first) ==
    [genotype |-> pop[first].Genotype,
     population |-> [pop EXCEPT ![first].Genotype = DefaultIndividual.Genotype]]

\* the genotype argument of the mutation-only call
\* mutator(random, population[first].Genotype): the parent is passed by copy
PassParentToMutator(pop, first) ==
    [genotype |-> pop[first].Genotype, population |-> pop]

\* the number of selector(random) calls of a triggered Plus trial
PlusSelections(doCrossover) == 2

\* the number of selector(random) calls of a triggered OffspringSelection trial
OSSelections(doCrossover) == IF doCrossover THEN 2 ELSE 1

\* Plus: the fitness stored for the Evaluator's return value f
PlusClamp(f, Max) ==
    IF IsFinite(f) THEN f ELSE IF Max THEN DblMin ELSE DblMax

\* a survivor rule that looks at the first parent only
PlusSurvivorFirstOnly(child, pop, first, second, doCrossover, Max) ==
    IF Max /\ Less(child.Fitness, pop[first].Fitness)
    THEN pop[first]
    ELSE IF ~Max /\ Greater(child.Fitness, pop[first].Fitness)
         THEN pop[first]
         ELSE child

\* Plus: the individual returned for the evaluated child
PlusSurvivor(child, pop, first, second, doCrossover, Max) ==
    IF doCrossover
    THEN IF Max /\ Less(child.Fitness, StdMax(pop[first].Fitness, pop[second].Fitness))
         THEN IF Greater(pop[first].Fitness, pop[second].Fitness)
              THEN pop[first] ELSE pop[second]
         ELSE IF ~Max /\ Greater(child.Fitness, StdMin(pop[first].Fitness, pop[second].Fitness))
              THEN IF Less(pop[first].Fitness, pop[second].Fitness)
                   THEN pop[first] ELSE pop[second]
              ELSE child
    ELSE IF Max /\ Less(child.Fitness, pop[first].Fitness)
         THEN pop[first]
         ELSE IF ~Max /\ Greater(child.Fitness, pop[first].Fitness)
              THEN pop[first]
              ELSE child

\* OffspringSelection: the fitness of the best contributing parent
OSParentFit(pop, first, second, doCrossover, Max) ==
    IF doCrossover
    THEN IF Max THEN StdMax(pop[first].Fitness, pop[second].Fitness)
                ELSE StdMin(pop[first].Fitness, pop[second].Fitness)
    ELSE pop[first].Fitness

\* a comparison that also accepts an equal candidate
CompNonStrict(Max, a, b) == a # NaN /\ b # NaN /\ (IF Max THEN a <= b ELSE a >= b)

\* std::conditional_t<Max, std::less<>, std::greater<>> comp
Comp(Max, a, b) == IF Max THEN Less(a, b) ELSE Greater(a, b)

\* OffspringSelection: what the call returns for the evaluated child
OSAccept(child, fit, Max) ==
    IF IsFinite(child.Fitness) /\ Comp(Max, fit, child.Fitness)
    THEN MakeOptional(child) ELSE Nullopt

\* the Evaluator's counter after one evaluation
CountEvaluation(n) == n + 1

\* size_t subtraction
SizeMod == 2 ^ SizeBits
SizeSub(a, b) == (a - b) % SizeMod

\* a pressure that subtracts the Evaluator's counter from the baseline
SelectionPressureFromBaseline ==
    IF population = <<>>
    THEN [num |-> 0, den |-> 1]
    ELSE [num |-> SizeSub(lastEvaluations, fitnessEvaluations), den |-> Len(population)]

\* SelectionPressure(): a double, kept as the fraction num / den
SelectionPressure ==
    IF population = <<>>
    THEN [num |-> 0, den |-> 1]
    ELSE [num |-> SizeSub(fitnessEvaluations, lastEvaluations), den |-> Len(population)]

\* a pressure test that also fires when the pressure equals the maximum
PressureReached == SelectionPressure.num >= maxSelectionPressure * SelectionPressure.den

\* SelectionPressure() > maxSelectionPressure
PressureExceeded == SelectionPressure.num > maxSelectionPressure * SelectionPressure.den

\* Terminate()
Terminate == baseTerminate \/ PressureExceeded

\* ---------------------------------------------------------------- Init
Init ==
    /\ recombinator \in {"Plus", "OS"}
    /\ Maximization \in BOOLEAN
    /\ population = <<>>
    /\ fitnessEvaluations = 0
    /\ lastEvaluations \in IF recombinator = "OS" THEN 0 .. 1 ELSE {0}
    /\ maxSelectionPressure = (IF recombinator = "OS" THEN MaxPressure ELSE 0)
    /\ baseTerminate = FALSE
    /\ prepared = FALSE
    /\ triggered = 0
    /\ sincePrepare = 0
    /\ trial = [t \in Trials |-> IdleTrial]
    /\ NoTree
    /\ NoCost

\* ---------------------------------------------------------------- actions
\* the trial returns std::nullopt right after the two samples
NotTriggered(t, s1, s2, pCrossover, pMutation) ==
    /\ trial' = [trial EXCEPT ![t] =
            [IdleTrial EXCEPT !.pc = "done", !.s1 = s1, !.s2 = s2,
                !.pCrossover = pCrossover, !.pMutation = pMutation,
                !.samples = 2]]
    /\ UNCHANGED <<costVars, treeVars, recombinator, Maximization, population, fitnessEvaluations,
                   lastEvaluations, maxSelectionPressure, baseTerminate,
                   prepared, triggered, sincePrepare>>

\* PlusRecombinator::operator(), from the samples to the built child:
\* s1, s2 are the two samples, sel1, sel2 what the Selector returns,
\* gx, gm what Crossover and Mutator return
PlusBegin(t, s1, s2, pCrossover, pMutation, sel1, sel2, gx, gm) ==
    /\ recombinator = "Plus"
    /\ ~InFlight(t)
    /\ LET doCrossover == Trigger(s1, pCrossover)
           doMutation == Trigger(s2, pMutation)
       IN IF ~(doCrossover \/ doMutation)
          THEN NotTriggered(t, s1, s2, pCrossover, pMutation)
          ELSE /\ sel1 \in 1 .. Len(population)
               /\ sel2 \in 1 .. Len(population)
               /\ LET first == sel1
                      second == sel2
                      crossed == IF doCrossover THEN gx ELSE DefaultIndividual.Genotype
                      passed == PassParentToMutator(population, first)
                      genotype == IF doMutation THEN gm ELSE crossed
                  IN /\ trial' = [trial EXCEPT ![t] =
                            [IdleTrial EXCEPT !.pc = "built", !.s1 = s1, !.s2 = s2,
                                !.pCrossover = pCrossover, !.pMutation = pMutation,
                                !.doCrossover = doCrossover, !.doMutation = doMutation,
                                !.first = first, !.second = second,
                                !.child = Individual(genotype, 0),
                                !.samples = 2,
                                !.selections = PlusSelections(doCrossover),
                                !.crossovers = IF doCrossover THEN 1 ELSE 0,
                                !.mutations = IF doMutation THEN 1 ELSE 0]]
                     /\ population' = IF doMutation /\ ~doCrossover
                                      THEN passed.population ELSE population
                     /\ triggered' = triggered + 1
                     /\ UNCHANGED <<costVars, treeVars, recombinator, Maximization, fitnessEvaluations,
                                    lastEvaluations, maxSelectionPressure,
                                    baseTerminate, prepared, sincePrepare>>

\* PlusRecombinator::operator(): the Evaluator returns f, which is clamped
PlusEvaluate(t, f) ==
    /\ recombinator = "Plus"
    /\ trial[t].pc = "built"
    /\ trial' = [trial EXCEPT ![t].pc = "evaluated", ![t].f = f,
                              ![t].child.Fitness = PlusClamp(f, Maximization),
                              ![t].evaluations = @ + 1,
                              ![t].overlapped = \E u \in Trials \ {t} : InFlight(u)]
    /\ fitnessEvaluations' = CountEvaluation(fitnessEvaluations)
    /\ sincePrepare' = sincePrepare + 1
    /\ UNCHANGED <<costVars, treeVars, recombinator, Maximization, population, lastEvaluations,
                   maxSelectionPressure, baseTerminate, prepared, triggered>>

\* PlusRecombinator::operator(): the survivor rule and the return
PlusReturn(t) ==
    /\ recombinator = "Plus"
    /\ trial[t].pc = "evaluated"
    /\ trial' = [trial EXCEPT ![t].pc = "done",
                    ![t].ret = MakeOptional(PlusSurvivor(trial[t].child, population,
                                  trial[t].first, trial[t].second,
                                  trial[t].doCrossover, Maximization))]
    /\ UNCHANGED <<costVars, treeVars, recombinator, Maximization, population, fitnessEvaluations,
                   lastEvaluations, maxSelectionPressure, baseTerminate,
                   prepared, triggered, sincePrepare>>

\* OffspringSelectionRecombinator::operator(), from the samples to the built
\* child; the second selector call is made only when crossing
OSBegin(t, s1, s2, pCrossover, pMutation, sel1, sel2, gx, gm) ==
    /\ recombinator = "OS"
    /\ ~InFlight(t)
    /\ LET doCrossover == Trigger(s1, pCrossover)
           doMutation == Trigger(s2, pMutation)
       IN IF ~(doCrossover \/ doMutation)
          THEN NotTriggered(t, s1, s2, pCrossover, pMutation)
          ELSE /\ sel1 \in 1 .. Len(population)
               /\ sel2 \in 1 .. Len(population)
               /\ LET first == sel1
                      second == IF doCrossover THEN sel2 ELSE 0
                      crossed == IF doCrossover THEN gx ELSE DefaultIndividual.Genotype
                      passed == PassParentToMutator(population, first)
                      genotype == IF doMutation THEN gm ELSE crossed
                  IN /\ trial' = [trial EXCEPT ![t] =
                            [IdleTrial EXCEPT !.pc = "built", !.s1 = s1, !.s2 = s2,
                                !.pCrossover = pCrossover, !.pMutation = pMutation,
                                !.doCrossover = doCrossover, !.doMutation = doMutation,
                                !.first = first, !.second = second,
                                !.fit = OSParentFit(population, first, sel2,
                                                    doCrossover, Maximization),
                                !.child = Individual(genotype, 0),
                                !.samples = 2,
                                !.selections = OSSelections(doCrossover),
                                !.crossovers = IF doCrossover THEN 1 ELSE 0,
                                !.mutations = IF doMutation THEN 1 ELSE 0]]
                     /\ population' = IF doMutation /\ ~doCrossover
                                      THEN passed.population ELSE population
                     /\ triggered' = triggered + 1
                     /\ UNCHANGED <<costVars, treeVars, recombinator, Maximization, fitnessEvaluations,
                                    lastEvaluations, maxSelectionPressure,
                                    baseTerminate, prepared, sincePrepare>>

\* a trial that evaluates its child twice
OSEvaluateTwice(t, f) ==
    /\ recombinator = "OS"
    /\ trial[t].pc = "built"
    /\ trial' = [trial EXCEPT ![t].pc = "evaluated", ![t].f = f,
                              ![t].child.Fitness = f,
                              ![t].evaluations = @ + 2,
                              ![t].overlapped = \E u \in Trials \ {t} : InFlight(u)]
    /\ fitnessEvaluations' = CountEvaluation(CountEvaluation(fitnessEvaluations))
    /\ sincePrepare' = sincePrepare + 2
    /\ UNCHANGED <<costVars, treeVars, recombinator, Maximization, population, lastEvaluations,
                   maxSelectionPressure, baseTerminate, prepared, triggered>>

\* OffspringSelectionRecombinator::operator(): child[Idx] = evaluator(random, child)
OSEvaluate(t, f) ==
    /\ recombinator = "OS"
    /\ trial[t].pc = "built"
    /\ trial' = [trial EXCEPT ![t].pc = "evaluated", ![t].f = f,
                              ![t].child.Fitness = f,
                              ![t].evaluations = @ + 1,
                              ![t].overlapped = \E u \in Trials \ {t} : InFlight(u)]
    /\ fitnessEvaluations' = CountEvaluation(fitnessEvaluations)
    /\ sincePrepare' = sincePrepare + 1
    /\ UNCHANGED <<costVars, treeVars, recombinator, Maximization, population, lastEvaluations,
                   maxSelectionPressure, baseTerminate, prepared, triggered>>

\* OffspringSelectionRecombinator::operator(): the acceptance test and the return
OSReturn(t) ==
    /\ recombinator = "OS"
    /\ trial[t].pc = "evaluated"
    /\ trial' = [trial EXCEPT ![t].pc = "done",
                    ![t].ret = OSAccept(trial[t].child, trial[t].fit, Maximization)]
    /\ UNCHANGED <<costVars, treeVars, recombinator, Maximization, population, fitnessEvaluations,
                   lastEvaluations, maxSelectionPressure, baseTerminate,
                   prepared, triggered, sincePrepare>>

\* PlusRecombinator::Prepare(pop), run by the driver between generations
PlusPrepare(pop) ==
    /\ recombinator = "Plus"
    /\ \A t \in Trials : ~InFlight(t)
    /\ population' = pop
    /\ prepared' = TRUE
    /\ triggered' = 0
    /\ sincePrepare' = 0
    /\ trial' = [t \in Trials |-> IdleTrial]
    /\ UNCHANGED <<costVars, treeVars, recombinator, Maximization, fitnessEvaluations, lastEvaluations,
                   maxSelectionPressure, baseTerminate>>

\* a Prepare that keeps the old evaluation baseline
OSPrepareKeepBaseline(pop) ==
    /\ recombinator = "OS"
    /\ \A t \in Trials : ~InFlight(t)
    /\ population' = pop
    /\ prepared' = TRUE
    /\ triggered' = 0
    /\ sincePrepare' = 0
    /\ trial' = [t \in Trials |-> IdleTrial]
    /\ UNCHANGED <<costVars, treeVars, recombinator, Maximization, fitnessEvaluations, lastEvaluations,
                   maxSelectionPressure, baseTerminate>>

\* OffspringSelectionRecombinator::Prepare(pop)
OSPrepare(pop) ==
    /\ recombinator = "OS"
    /\ \A t \in Trials : ~InFlight(t)
    /\ population' = pop
    /\ lastEvaluations' = fitnessEvaluations
    /\ prepared' = TRUE
    /\ triggered' = 0
    /\ sincePrepare' = 0
    /\ trial' = [t \in Trials |-> IdleTrial]
    /\ UNCHANGED <<costVars, treeVars, recombinator, Maximization, fitnessEvaluations,
                   maxSelectionPressure, baseTerminate>>

\* OffspringSelectionRecombinator::MaxSelectionPressure(value)
SetMaxSelectionPressure(value) ==
    /\ recombinator = "OS"
    /\ maxSelectionPressure' = value
    /\ UNCHANGED <<costVars, treeVars, recombinator, Maximization, population, fitnessEvaluations,
                   lastEvaluations, baseTerminate, prepared, triggered,
                   sincePrepare, trial>>

\* ---------------------------------------------------------------- Spec
\* the Evaluator's counter has room for one more triggered trial, or the
\* samples do not trigger the trial
Room(cap, s1, s2, pCrossover, pMutation) ==
    \/ fitnessEvaluations + Cardinality(Built) < cap
    \/ ~(Trigger(s1, pCrossover) \/ Trigger(s2, pMutation))

\* a driver that runs one trial at a time, over every input
Next ==
    \/ \E s1 \in Samples, s2 \in Samples,
          pCrossover \in Probabilities, pMutation \in Probabilities,
          sel1 \in 1 .. PopSize, sel2 \in 1 .. PopSize,
          gx \in ChildGenotypes, gm \in ChildGenotypes :
            /\ Room(MaxEvals, s1, s2, pCrossover, pMutation)
            /\ PlusBegin(1, s1, s2, pCrossover, pMutation, sel1, sel2, gx, gm)
    \/ \E f \in Doubles : PlusEvaluate(1, f)
    \/ PlusReturn(1)
    \/ \E s1 \in Samples, s2 \in Samples,
          pCrossover \in Probabilities, pMutation \in Probabilities,
          sel1 \in 1 .. PopSize, sel2 \in 1 .. PopSize,
          gx \in ChildGenotypes, gm \in ChildGenotypes :
            /\ Room(MaxEvals, s1, s2, pCrossover, pMutation)
            /\ OSBegin(1, s1, s2, pCrossover, pMutation, sel1, sel2, gx, gm)
    \/ \E f \in Doubles : OSEvaluate(1, f)
    \/ OSReturn(1)
    \/ \E pop \in Populations : PlusPrepare(pop)
    \/ \E pop \in Populations : OSPrepare(pop)

Spec == Init /\ [][Next]_vars

\* ---------------------------------------------------------------- SpecConc
\* a driver that runs NumTrials OffspringSelection trials concurrently between
\* two Prepare calls; the populations have equal fitness, the Selector
\* returns the first individual and the Evaluator the fitness 1
ConcPopulations == {pop \in Populations : \A i \in 1 .. Len(pop) : pop[i].Fitness = 0}
ConcDoubles == {1}

InitConc ==
    /\ recombinator = "OS"
    /\ Maximization \in BOOLEAN
    /\ population = <<>>
    /\ fitnessEvaluations = 0
    /\ lastEvaluations \in 0 .. 1
    /\ maxSelectionPressure \in 0 .. MaxPressure
    /\ baseTerminate \in BOOLEAN
    /\ prepared = FALSE
    /\ triggered = 0
    /\ sincePrepare = 0
    /\ trial = [t \in Trials |-> IdleTrial]
    /\ NoTree
    /\ NoCost

NextConc ==
    \/ \E t \in Trials, s1 \in Samples, s2 \in Samples,
          pCrossover \in Probabilities, pMutation \in Probabilities,
          gx \in ChildGenotypes, gm \in ChildGenotypes :
            /\ Room(MaxEvals + 1, s1, s2, pCrossover, pMutation)
            /\ OSBegin(t, s1, s2, pCrossover, pMutation, 1, 1, gx, gm)
    \/ \E t \in Trials, f \in ConcDoubles : OSEvaluate(t, f)
    \/ \E t \in Trials : OSReturn(t)
    \/ \E pop \in ConcPopulations : OSPrepare(pop)
    \/ \E value \in 0 .. MaxPressure : SetMaxSelectionPressure(value)

SpecConc == InitConc /\ [][NextConc]_vars

TypeOK ==
    /\ population \in Populations
    /\ fitnessEvaluations \in 0 .. (MaxEvals + 1)
    /\ \A t \in Trials : trial[t].child.Fitness \in Doubles

\* ---------------------------------------------------------------- claims
\* the trial was triggered: it crosses or mutates
Triggered(r) == r.doCrossover \/ r.doMutation

\* a is strictly better than b in the Selector's direction (finite a, b)
Better(a, b) == IF Maximization THEN a > b ELSE a < b

\* the parents that contribute to the child of trial r
Contributing(r) ==
    IF r.doCrossover THEN {population[r.first], population[r.second]}
    ELSE {population[r.first]}

\* the fitness of the best contributing parent of trial r
BestParent(r) ==
    CHOOSE b \in {p.Fitness : p \in Contributing(r)} :
        \A p \in Contributing(r) : ~Better(p.Fitness, b)

\* C1: a triggered Plus trial over finite parents returns an individual whose
\* fitness is at least as good as the best contributing parent's, and when the
\* candidate is worse than that parent it returns that parent, unchanged.
C1_PlusElitist ==
    \A t \in Trials :
        LET r == trial[t] IN
        (recombinator = "Plus" /\ r.pc = "done" /\ Triggered(r)) =>
            /\ r.ret.has
            /\ ~Better(BestParent(r), r.ret.val.Fitness)
            /\ Better(BestParent(r), r.child.Fitness) =>
                  /\ r.ret.val \in Contributing(r)
                  /\ r.ret.val.Fitness = BestParent(r)

\* a crossing Plus trial whose candidate is worse than the better parent, the
\* second one, and which returned that parent
C1_Witness ==
    \E t \in Trials :
        LET r == trial[t] IN
        /\ recombinator = "Plus" /\ r.pc = "done" /\ r.doCrossover
        /\ ~Maximization
        /\ population[r.second].Fitness < population[r.first].Fitness
        /\ r.child.Fitness > population[r.second].Fitness
        /\ r.child.Fitness < population[r.first].Fitness
        /\ r.ret = MakeOptional(population[r.second])

\* C2: in both recombinators, when the Evaluator returns a non-finite fitness,
\* the trial does not return the candidate in place of a contributing parent
\* with finite fitness: it returns a contributing parent or nothing.
C2_NonFiniteNeverSelected ==
    \A t \in Trials :
        LET r == trial[t] IN
        (r.pc = "done" /\ Triggered(r) /\ ~IsFinite(r.f)) =>
            (r.ret.has => r.ret.val \in Contributing(r))

\* C3: Plus stores, for a non-finite Evaluator value, a finite fitness such
\* that no finite fitness is strictly worse in the active direction.
C3_ClampIsWorst ==
    \A t \in Trials :
        LET r == trial[t] IN
        (recombinator = "Plus" /\ r.pc \in {"evaluated", "done"} /\ ~IsFinite(r.f)) =>
            /\ IsFinite(r.child.Fitness)
            /\ \A v \in FiniteVals : ~Better(r.child.Fitness, v)

\* C4: a triggered OffspringSelection trial returns the candidate if and only
\* if its fitness is finite and strictly better than the best contributing
\* parent's; otherwise it returns nothing, never a parent.
C4_OSStrictImprovement ==
    \A t \in Trials :
        LET r == trial[t] IN
        (recombinator = "OS" /\ r.pc = "done" /\ Triggered(r)) =>
            /\ r.ret.has <=> (IsFinite(r.child.Fitness)
                              /\ Better(r.child.Fitness, BestParent(r)))
            /\ r.ret.has => r.ret.val = r.child
            /\ r.child.Fitness = r.f

\* a crossing OffspringSelection trial whose candidate equals the better
\* parent, the second one, and which returned nothing
C4_Witness ==
    \E t \in Trials :
        LET r == trial[t] IN
        /\ recombinator = "OS" /\ r.pc = "done" /\ r.doCrossover
        /\ Better(population[r.second].Fitness, population[r.first].Fitness)
        /\ r.child.Fitness = population[r.second].Fitness
        /\ r.ret = Nullopt

\* every trial has returned or not started
Quiescent == \A t \in Trials : ~InFlight(t)

\* C5: after Prepare and any sequence of trials, SelectionPressure() is the
\* number of evaluations made since the most recent Prepare divided by the
\* population size (0 right after Prepare, and 0 for an empty population).
C5_PressureIsEvaluationsPerIndividual ==
    (recombinator = "OS" /\ prepared) =>
        /\ SelectionPressure.num = sincePrepare
        /\ SelectionPressure.den = (IF population = <<>> THEN 1 ELSE Len(population))
        /\ fitnessEvaluations - lastEvaluations = sincePrepare

\* a second generation: one evaluation after a Prepare that itself came
\* after an earlier evaluation, over two individuals: the pressure is 1 / 2
C5_Witness ==
    /\ recombinator = "OS" /\ prepared
    /\ lastEvaluations > 0
    /\ SelectionPressure = [num |-> 1, den |-> 2]

\* C6: Terminate() is true whenever the selection pressure exceeds
\* MaxSelectionPressure, and the pressure test is strict: with the pressure
\* at or below the maximum Terminate() is true only through the base class.
C6_TerminateOnPressure ==
    (recombinator = "OS" /\ prepared /\ population # <<>>) =>
        /\ sincePrepare > maxSelectionPressure * Len(population) => Terminate
        /\ (sincePrepare <= maxSelectionPressure * Len(population) /\ ~baseTerminate)
              => ~Terminate

\* the pressure equals a positive MaxSelectionPressure and Terminate() is false
C6_Witness ==
    /\ recombinator = "OS" /\ prepared /\ population # <<>>
    /\ maxSelectionPressure > 0
    /\ sincePrepare = maxSelectionPressure * Len(population)
    /\ ~Terminate

\* what C7 says of the locals of every trial
C7_Locals ==
    \A t \in Trials :
        LET r == trial[t] IN
        r.pc # "idle" =>
            /\ r.samples = 2
            /\ r.doCrossover = (r.s1 < r.pCrossover)
            /\ r.doMutation = (r.s2 < r.pMutation)
            /\ ~Triggered(r) =>
                  /\ r.pc = "done" /\ r.ret = Nullopt
                  /\ r.selections = 0 /\ r.crossovers = 0
                  /\ r.mutations = 0 /\ r.evaluations = 0

\* a step in which trial t returns nothing right after its two samples
UntriggeredReturn(t) ==
    /\ trial'[t] # trial[t]
    /\ trial'[t].pc = "done"
    /\ ~Triggered(trial'[t])

\* C7: a trial draws two samples, the first deciding crossover and the second
\* mutation; when neither fires it returns nothing without calling the
\* Selector, Crossover, Mutator or Evaluator, and leaves the evaluation
\* counter and the selection pressure unchanged.
C7_UntriggeredTrialIsInert ==
    /\ []C7_Locals
    /\ [][\A t \in Trials : UntriggeredReturn(t) =>
            /\ fitnessEvaluations' = fitnessEvaluations
            /\ SelectionPressure' = SelectionPressure]_vars

\* a trial that returned nothing with the samples equal to the probabilities,
\* after an earlier evaluation
C7_Witness ==
    \E t \in Trials :
        LET r == trial[t] IN
        /\ r.pc = "done" /\ ~Triggered(r)
        /\ r.s1 = r.pCrossover /\ r.s2 = r.pMutation
        /\ population # <<>>
        /\ fitnessEvaluations > 0

\* C8: a triggered trial calls the Selector once when it only mutates and
\* twice when it crosses.
C8_SelectorCalls ==
    \A t \in Trials :
        LET r == trial[t] IN
        (r.pc # "idle" /\ Triggered(r)) =>
            r.selections = (IF r.doCrossover THEN 2 ELSE 1)

\* C9: once N concurrent triggered trials started after Prepare have all
\* finished, the Evaluator's counter has grown by exactly N, the selection
\* pressure is N / populationSize and Terminate() decides as for N
\* sequential trials.
C9_ConcurrentCountIsExact ==
    (recombinator = "OS" /\ prepared /\ Quiescent) =>
        /\ fitnessEvaluations - lastEvaluations = triggered
        /\ population # <<>> =>
              /\ SelectionPressure = [num |-> triggered, den |-> Len(population)]
              /\ Terminate <=>
                    (baseTerminate \/ triggered > maxSelectionPressure * Len(population))

\* every trial has finished, and each called the Evaluator while another
\* trial was in flight
C9_Witness ==
    /\ recombinator = "OS" /\ prepared /\ Quiescent
    /\ triggered = NumTrials
    /\ \A t \in Trials : trial[t].pc = "done" /\ trial[t].overlapped
    /\ fitnessEvaluations = lastEvaluations + NumTrials

\* a step of a running trial: a Prepare returns every trial to "idle"
TrialStep == \E t \in Trials : trial'[t] # trial[t] /\ trial'[t].pc # "idle"

\* C10: a trial leaves the parent population (genotypes and fitness) and the
\* OffspringSelection evaluation baseline as they were; only Prepare writes
\* them.
C10_TrialFrame ==
    [][TrialStep => /\ population' = population
                    /\ lastEvaluations' = lastEvaluations
                    /\ maxSelectionPressure' = maxSelectionPressure]_vars

\* a mutation-only trial has returned and its parent still has its genotype
C10_Witness ==
    \E t \in Trials :
        LET r == trial[t] IN
        /\ r.pc = "done" /\ r.doMutation /\ ~r.doCrossover
        /\ population[r.first].Genotype = r.first
        /\ lastEvaluations # fitnessEvaluations

\* ================================================================ Tree
\* The tree of include/operon/core/tree.hpp and src/core/tree.cpp: a vector
\* of nodes in postfix order.  The C++ index i of a node is kept; the node
\* is element i + 1 of the sequence.  A hash value (Operon::Hash, 64 bits)
\* is modelled by a sequence of naturals, compared lexicographically, and
\* the hash function by a bracketing of its key, which has no collisions.

MaxNodes == 5      \* the largest tree handed to the Tree constructor

\* ---------------------------------------------------------------- Node
Values == {1, 2}                        \* Node::Value of a leaf
ConstantValues == {1}                   \* Node::Value of a constant as constructed
Weights == {1, 2}                       \* Node::Value of a variable as constructed
LeafTypes == {"Constant", "Variable"}
FunctionTypes == {"Add", "Sub", "Exp"}

\* the arity a function node is constructed with
ArityOf(type) == IF type \in LeafTypes THEN 0 ELSE IF type = "Exp" THEN 1 ELSE 2

\* Node::HashValue, fixed at construction by the node type (one variable)
TypeHash(type) ==
    CASE type = "Constant" -> <<2>>
      [] type = "Variable" -> <<3>>
      [] type = "Exp" -> <<4>>
      [] type = "Sub" -> <<5>>
      [] type = "Add" -> <<6>>

\* Node(type) with the payload value
MakeNode(type, value) ==
    [Type |-> type, Arity |-> ArityOf(type), Length |-> ArityOf(type),
     Depth |-> 1, Parent |-> 0, IsEnabled |-> TRUE,
     HashValue |-> TypeHash(type), CalculatedHashValue |-> TypeHash(type),
     Value |-> value]

IsLeaf(n) == n.Arity = 0
IsCommutative(n) == n.Type = "Add"
IsConstant(n) == n.Type = "Constant"
IsVariable(n) == n.Type = "Variable"

\* operator< on Operon::Hash
HashLess(a, b) ==
    \E k \in 1 .. (Len(a) + 1) :
        /\ \A j \in 1 .. (k - 1) : j <= Len(b) /\ a[j] = b[j]
        /\ k <= Len(b)
        /\ (k <= Len(a) => a[k] < b[k])

\* Node::operator<
NodeLess(a, b) ==
    IF a.HashValue = b.HashValue
    THEN HashLess(a.CalculatedHashValue, b.CalculatedHashValue)
    ELSE HashLess(a.HashValue, b.HashValue)

\* the hash function applied to a key made of hash values
Hasher(key) == <<0>> \o key \o <<1>>

\* the bytes of a Node::Value inside a key
ScalarBytes(v) == <<v + 6>>

\* nodes[i]
At(t, i) == t[i + 1]

\* ---------------------------------------------------------------- SubtreeIterator
\* SubtreeIterator(tree, i): index_(i - 1), in size_t
ItBegin(i) == SizeSub(i, 1)

\* HasNext() without the lower end of the range
HasNextNoLowerEnd(t, p, idx) == idx < p

\* HasNext() of the iterator over the children of p whose cursor is idx
HasNext(t, p, idx) == idx < p /\ idx >= SizeSub(p, At(t, p).Length)

\* an operator++() that steps to the preceding node
ItNextByOne(t, idx) == SizeSub(idx, 1)

\* operator++(): index_ -= nodes_[index_].Length + 1UL
ItNext(t, idx) == SizeSub(idx, At(t, idx).Length + 1)

\* for (auto it = Children(i); it.HasNext(); ++it): the values of it.Index()
RECURSIVE Walk(_, _, _)
Walk(t, p, idx) ==
    IF HasNext(t, p, idx) THEN <<idx>> \o Walk(t, p, ItNext(t, idx)) ELSE <<>>

\* the cursor such a loop ends with
RECURSIVE LastCursor(_, _, _)
LastCursor(t, p, idx) ==
    IF HasNext(t, p, idx) THEN LastCursor(t, p, ItNext(t, idx)) ELSE idx

Children(t, i) == Walk(t, i, ItBegin(i))

\* ---------------------------------------------------------------- Tree::UpdateNodes
\* the loop over the children of s = nodes[i], which reads s.Length in
\* HasNext() while adding to it
RECURSIVE UpdateChildren(_, _, _)
UpdateChildren(t, i, idx) ==
    IF HasNext(t, i, idx)
    THEN LET c == At(t, idx)
             s == At(t, i)
             t1 == [t EXCEPT ![i + 1].Length = s.Length + c.Length,
                             ![i + 1].Depth = IF s.Depth < c.Depth THEN c.Depth ELSE s.Depth,
                             ![idx + 1].Parent = i]
         IN UpdateChildren(t1, i, ItNext(t1, idx))
    ELSE t

\* a pass that does not reset the depth of a node before taking the maximum
RECURSIVE UpdateFromNoReset(_, _)
UpdateFromNoReset(t, i) ==
    IF i >= Len(t) THEN t
    ELSE LET t0 == [t EXCEPT ![i + 1].Length = At(t, i).Arity]
         IN IF IsLeaf(At(t0, i))
            THEN UpdateFromNoReset([t0 EXCEPT ![i + 1].Arity = 0, ![i + 1].Length = 0], i + 1)
            ELSE LET t1 == UpdateChildren(t0, i, ItBegin(i))
                 IN UpdateFromNoReset([t1 EXCEPT ![i + 1].Depth = At(t1, i).Depth + 1], i + 1)

\* the loop of UpdateNodes() from node i on
RECURSIVE UpdateFrom(_, _)
UpdateFrom(t, i) ==
    IF i >= Len(t) THEN t
    ELSE LET t0 == [t EXCEPT ![i + 1].Depth = 1, ![i + 1].Length = At(t, i).Arity]
         IN IF IsLeaf(At(t0, i))
            THEN UpdateFrom([t0 EXCEPT ![i + 1].Arity = 0, ![i + 1].Length = 0], i + 1)
            ELSE LET t1 == UpdateChildren(t0, i, ItBegin(i))
                 IN UpdateFrom([t1 EXCEPT ![i + 1].Depth = At(t1, i).Depth + 1], i + 1)

\* an UpdateNodes() that leaves the depth of every node at 1
UpdateNodesFlat(t) == [i \in 1 .. Len(t) |-> [UpdateFrom(t, 0)[i] EXCEPT !.Depth = 1]]

UpdateNodes(t) == UpdateFrom(t, 0)

\* Tree::Depth()
Depth(t) == t[Len(t)].Depth

\* ---------------------------------------------------------------- sorting
\* the range of indices first .. last - 1, ascending
IndexRange(first, last) == [k \in 1 .. (last - first) |-> first + k - 1]

\* the nodes of the subtree rooted at j, in array order
SubtreeNodes(t, j) == SubSeq(t, j - At(t, j).Length + 1, j + 1)

RECURSIVE Concat(_)
Concat(ss) == IF ss = <<>> THEN <<>> ELSE Head(ss) \o Concat(Tail(ss))

\* a sort of the indices idxs with the comparison nodes[a] < nodes[b];
\* elements that compare equivalent keep their order (ties = "keep") or come
\* out in the opposite order (ties = "reverse")
SortIndices(t, idxs, ties) ==
    LET n == Len(idxs)
        lt(j, k) == NodeLess(At(t, idxs[j]), At(t, idxs[k]))
        eq(j, k) == ~lt(j, k) /\ ~lt(k, j)
        pos(k) == 1 + Cardinality({j \in 1 .. n : lt(j, k)})
                    + Cardinality({j \in 1 .. n :
                                      eq(j, k) /\ (IF ties = "keep" THEN j < k ELSE j > k)})
    IN [q \in 1 .. n |-> idxs[CHOOSE k \in 1 .. n : pos(k) = q]]

\* std::stable_sort of child indices
StableSort(t, idxs) == SortIndices(t, idxs, "keep")

\* the array with the range starting at index first overwritten by nodes ns
Overwrite(t, first, ns) ==
    [k \in 1 .. Len(t) |->
        IF k - 1 >= first /\ k - 1 < first + Len(ns) THEN ns[k - first] ELSE t[k]]

\* a sort step that orders the children of every function node
SortFunctionAnyNode(t, i, ties) ==
    LET s == At(t, i)
        arity == s.Arity
        size == s.Length
        sBegin == i - size
        t1 == IF arity = size
              THEN LET order == SortIndices(t, IndexRange(sBegin, i), ties)
                   IN Overwrite(t, sBegin, [k \in 1 .. Len(order) |-> At(t, order[k])])
              ELSE LET children == SortIndices(t, Children(t, i), ties)
                       sorted == Concat([k \in 1 .. Len(children) |->
                                            SubtreeNodes(t, children[k])])
                   IN Overwrite(t, sBegin, sorted)
        hashes == Concat([k \in 1 .. size |-> At(t1, sBegin + k - 1).CalculatedHashValue])
                      \o s.HashValue
    IN [t1 EXCEPT ![i + 1].CalculatedHashValue = Hasher(hashes)]

\* ---------------------------------------------------------------- Tree::Sort
\* the body of the loop of Sort for a function node s = nodes[i]
SortFunction(t, i, ties) ==
    LET s == At(t, i)
        arity == s.Arity
        size == s.Length
        sBegin == i - size
        t1 == IF ~IsCommutative(s) THEN t
              ELSE IF arity = size
                   THEN LET order == SortIndices(t, IndexRange(sBegin, i), ties)
                        IN Overwrite(t, sBegin, [k \in 1 .. Len(order) |-> At(t, order[k])])
                   ELSE LET children == SortIndices(t, Children(t, i), ties)
                            sorted == Concat([k \in 1 .. Len(children) |->
                                                 SubtreeNodes(t, children[k])])
                        IN Overwrite(t, sBegin, sorted)
        hashes == Concat([k \in 1 .. size |-> At(t1, sBegin + k - 1).CalculatedHashValue])
                      \o s.HashValue
    IN [t1 EXCEPT ![i + 1].CalculatedHashValue = Hasher(hashes)]

RECURSIVE SortFrom(_, _, _, _)
SortFrom(t, i, strict, ties) ==
    IF i >= Len(t) THEN t
    ELSE LET s == At(t, i) IN
         IF IsConstant(s) THEN SortFrom(t, i + 1, strict, ties)
         ELSE IF IsVariable(s)
         THEN SortFrom([t EXCEPT ![i + 1].CalculatedHashValue =
                           IF strict
                           THEN Hasher(s.HashValue \o Hasher(ScalarBytes(s.Value)))
                           ELSE s.HashValue],
                       i + 1, strict, ties)
         ELSE SortFrom(SortFunction(t, i, ties), i + 1, strict, ties)

\* Tree::Sort(strict) of a build whose std::sort orders ties as given
Sort(t, strict, ties) == UpdateNodes(SortFrom(t, 0, strict, ties))

\* ---------------------------------------------------------------- Tree::Reduce
\* a loop that disables the children without adding their arity
RECURSIVE ReduceChildrenKeepArity(_, _, _)
ReduceChildrenKeepArity(t, i, kids) ==
    IF kids = <<>> THEN t
    ELSE LET j == Head(kids)
             t1 == IF At(t, i).HashValue = At(t, j).HashValue
                   THEN [t EXCEPT ![j + 1].IsEnabled = FALSE]
                   ELSE t
         IN ReduceChildrenKeepArity(t1, i, Tail(kids))

\* the loop over the children of the commutative node s = nodes[i]
RECURSIVE ReduceChildren(_, _, _)
ReduceChildren(t, i, kids) ==
    IF kids = <<>> THEN t
    ELSE LET j == Head(kids)
             t1 == IF At(t, i).HashValue = At(t, j).HashValue
                   THEN [t EXCEPT ![j + 1].IsEnabled = FALSE,
                                  ![i + 1].Arity = At(t, i).Arity + At(t, j).Arity - 1]
                   ELSE t
         IN ReduceChildren(t1, i, Tail(kids))

RECURSIVE ReduceFrom(_, _)
ReduceFrom(t, i) ==
    IF i >= Len(t) THEN t
    ELSE IF IsLeaf(At(t, i)) \/ ~IsCommutative(At(t, i))
         THEN ReduceFrom(t, i + 1)
         ELSE ReduceFrom(ReduceChildren(t, i, Children(t, i)), i + 1)

\* the first loop of Reduce() disabled a node
Reduced(t) ==
    \E i \in 0 .. (Len(t) - 1) :
        /\ ~IsLeaf(At(t, i)) /\ IsCommutative(At(t, i))
        /\ \E k \in 1 .. Len(Children(t, i)) :
              At(t, Children(t, i)[k]).HashValue = At(t, i).HashValue

Enabled(n) == n.IsEnabled

\* a Reduce() that does not erase the disabled nodes
ReduceKeepDisabled(t) == UpdateNodes(ReduceFrom(t, 0))

Reduce(t) ==
    LET t1 == ReduceFrom(t, 0)
    IN UpdateNodes(IF Reduced(t) THEN SelectSeq(t1, Enabled) ELSE t1)

\* ---------------------------------------------------------------- Tree::Hash
\* a leaf hash that ignores the value in both modes
LeafHashRelaxed(n, mode) == n.HashValue

\* the CalculatedHashValue Hash(mode) gives a leaf
LeafHash(n, mode) ==
    IF mode = "Strict" THEN Hasher(n.HashValue \o ScalarBytes(n.Value)) ELSE n.HashValue

\* a function-node hash that keeps the children in array order
FunctionHashUnsorted(t, i) ==
    LET n == At(t, i)
        childIndices == SubSeq(Children(t, i), 1, n.Arity)
    IN Hasher(Concat([k \in 1 .. Len(childIndices) |->
                         At(t, childIndices[k]).CalculatedHashValue]) \o n.HashValue)

\* the CalculatedHashValue Hash(mode) gives the function node n = nodes[i]
FunctionHash(t, i) ==
    LET n == At(t, i)
        childIndices == SubSeq(Children(t, i), 1, n.Arity)
        order == IF IsCommutative(n) THEN StableSort(t, childIndices) ELSE childIndices
    IN Hasher(Concat([k \in 1 .. Len(order) |->
                         At(t, order[k]).CalculatedHashValue]) \o n.HashValue)

RECURSIVE HashFrom(_, _, _)
HashFrom(t, i, mode) ==
    IF i >= Len(t) THEN t
    ELSE HashFrom([t EXCEPT ![i + 1].CalculatedHashValue =
                      IF IsLeaf(At(t, i)) THEN LeafHash(At(t, i), mode)
                      ELSE FunctionHash(t, i)],
                  i + 1, mode)

\* Tree::Hash<H>(mode)
Hash(t, mode) == HashFrom(t, 0, mode)

\* Tree::HashValue()
HashValue(t) == IF t = <<>> THEN <<>> ELSE t[Len(t)].CalculatedHashValue

\* ---------------------------------------------------------------- coefficients
HasCoefficient(n) == IsConstant(n) \/ IsVariable(n)

\* Tree::CoefficientsCount()
CoefficientsCount(t) == Cardinality({k \in 1 .. Len(t) : IsLeaf(t[k])})

\* Tree::GetCoefficients()
GetCoefficients(t) ==
    LET leaves == SelectSeq(t, HasCoefficient)
    IN [k \in 1 .. Len(leaves) |-> leaves[k].Value]

\* a SetCoefficients that writes the coefficients in reverse order
SetCoefficientsReversed(t, coefficients) ==
    [k \in 1 .. Len(t) |->
        IF HasCoefficient(t[k])
        THEN [t[k] EXCEPT !.Value =
                 coefficients[Len(coefficients) + 1
                              - Cardinality({j \in 1 .. k : HasCoefficient(t[j])})]]
        ELSE t[k]]

\* Tree::SetCoefficients(coefficients)
SetCoefficients(t, coefficients) ==
    [k \in 1 .. Len(t) |->
        IF HasCoefficient(t[k])
        THEN [t[k] EXCEPT !.Value =
                 coefficients[Cardinality({j \in 1 .. k : HasCoefficient(t[j])})]]
        ELSE t[k]]

\* ---------------------------------------------------------------- Tree::Subtree
\* Subtree(i): copy_n(nodes_.begin() + i - n.Length, n.Length, ...)
Subtree(t, i) == UpdateNodes(SubSeq(t, i - At(t, i).Length + 1, i))

\* ---------------------------------------------------------------- SpecTree
\* the nodes a tree is built from
Symbols ==
    {MakeNode("Constant", v) : v \in ConstantValues}
        \cup {MakeNode("Variable", w) : w \in Weights}
        \cup {MakeNode(type, 1) : type \in FunctionTypes}

\* the number of complete subtrees among the first k nodes, -1 when a node
\* lacks children
RECURSIVE Roots(_, _)
Roots(t, k) ==
    IF k = 0 THEN 0
    ELSE LET r == Roots(t, k - 1)
         IN IF r < t[k].Arity THEN 0 - 1 ELSE r - t[k].Arity + 1

\* the node sequences whose arities describe a single tree
RawTrees ==
    {t \in UNION {[1 .. n -> Symbols] : n \in 1 .. MaxNodes} : Roots(t, Len(t)) = 1}

\* Tree(list): the nodes as constructed, derived fields not yet computed
InitTree ==
    /\ recombinator = "Plus"
    /\ Maximization = FALSE
    /\ population = <<>>
    /\ fitnessEvaluations = 0
    /\ lastEvaluations = 0
    /\ maxSelectionPressure = 0
    /\ baseTerminate = FALSE
    /\ prepared = FALSE
    /\ triggered = 0
    /\ sincePrepare = 0
    /\ trial = [t \in Trials |-> IdleTrial]
    /\ NoCost
    /\ nodes \in RawTrees
    /\ tieOrder \in {"keep", "reverse"}
    /\ op = "Tree"
    /\ before = <<>>
    /\ arg = <<>>
    /\ result = <<>>

CallUpdateNodes ==
    /\ nodes' = UpdateNodes(nodes)
    /\ op' = "UpdateNodes"
    /\ before' = nodes
    /\ arg' = <<>>
    /\ result' = <<>>
    /\ UNCHANGED <<tieOrder, recVars, costVars>>

CallSort(strict) ==
    /\ nodes' = Sort(nodes, strict, tieOrder)
    /\ op' = "Sort"
    /\ before' = nodes
    /\ arg' = <<strict>>
    /\ result' = <<>>
    /\ UNCHANGED <<tieOrder, recVars, costVars>>

CallReduce ==
    /\ nodes' = Reduce(nodes)
    /\ op' = "Reduce"
    /\ before' = nodes
    /\ arg' = <<>>
    /\ result' = <<>>
    /\ UNCHANGED <<tieOrder, recVars, costVars>>

CallHash(mode) ==
    /\ nodes' = Hash(nodes, mode)
    /\ op' = "Hash"
    /\ before' = nodes
    /\ arg' = <<mode>>
    /\ result' = <<>>
    /\ UNCHANGED <<tieOrder, recVars, costVars>>

CallGetCoefficients ==
    /\ result' = GetCoefficients(nodes)
    /\ op' = "GetCoefficients"
    /\ before' = nodes
    /\ arg' = <<>>
    /\ UNCHANGED <<nodes, tieOrder, recVars, costVars>>

CallSetCoefficients(coefficients) ==
    /\ Len(coefficients) = CoefficientsCount(nodes)
    /\ nodes' = SetCoefficients(nodes, coefficients)
    /\ op' = "SetCoefficients"
    /\ before' = nodes
    /\ arg' = coefficients
    /\ result' = <<>>
    /\ UNCHANGED <<tieOrder, recVars, costVars>>

CallSubtree(i) ==
    /\ i < Len(nodes)
    /\ result' = Subtree(nodes, i)
    /\ op' = "Subtree"
    /\ before' = nodes
    /\ arg' = <<i>>
    /\ UNCHANGED <<nodes, tieOrder, recVars, costVars>>

\* the coefficient vectors handed to SetCoefficients
Coefficients == UNION {[1 .. n -> Values] : n \in 0 .. MaxNodes}

\* a caller that runs UpdateNodes() on the constructed tree and then
\* restructures it
NextTree ==
    \/ CallUpdateNodes
    \/ \E strict \in BOOLEAN : op # "Tree" /\ CallSort(strict)
    \/ op # "Tree" /\ CallReduce

SpecTree == InitTree /\ [][NextTree]_vars

\* a caller that runs UpdateNodes() on the constructed tree and then hashes it
NextHash ==
    \/ CallUpdateNodes
    \/ \E mode \in {"Strict", "Relaxed"} : op # "Tree" /\ CallHash(mode)

SpecHash == InitTree /\ [][NextHash]_vars

\* a caller that runs UpdateNodes() on the constructed tree and then reads
\* and writes its coefficients and copies subtrees out of it
NextCoefficients ==
    \/ CallUpdateNodes
    \/ op # "Tree" /\ CallGetCoefficients
    \/ \E coefficients \in Coefficients :
          op # "Tree" /\ CallSetCoefficients(coefficients)
    \/ \E i \in 0 .. (MaxNodes - 1) : op # "Tree" /\ CallSubtree(i)

SpecCoefficients == InitTree /\ [][NextCoefficients]_vars

TreeTypeOK ==
    /\ Len(nodes) \in 0 .. MaxNodes
    /\ op \in {"none", "Tree", "UpdateNodes", "Sort", "Reduce", "Hash",
               "GetCoefficients", "SetCoefficients", "Subtree"}

\* ================================================================ claims on the tree
\* UpdateNodes() has run on the tree
Updated == op \notin {"none", "Tree"}

\* The shape of a tree as its arities alone give it: the number of nodes of
\* the subtree rooted at i, and the positions of the children of i
RECURSIVE Span(_, _)
RECURSIVE KidsSpan(_, _, _)
Span(t, i) == 1 + KidsSpan(t, i - 1, At(t, i).Arity)
KidsSpan(t, idx, k) ==
    IF k = 0 THEN 0 ELSE Span(t, idx) + KidsSpan(t, idx - Span(t, idx), k - 1)

RECURSIVE KidList(_, _, _)
KidList(t, idx, k) ==
    IF k = 0 THEN <<>> ELSE <<idx>> \o KidList(t, idx - Span(t, idx), k - 1)

Kids(t, i) == KidList(t, i - 1, At(t, i).Arity)

\* the arities describe a single tree
SingleTree(t) == t # <<>> /\ Roots(t, Len(t)) = 1

\* C11: after UpdateNodes(), for every index i > 0 the loop over Children(i)
\* visits exactly Arity(i) positions, in strictly decreasing order, each
\* inside [i - Length(i), i), and then stops
C11_ChildrenYieldsArityEntries ==
    Updated =>
        \A i \in 1 .. (Len(nodes) - 1) :
            LET ch == Children(nodes, i) IN
            /\ Len(ch) = At(nodes, i).Arity
            /\ \A k \in 1 .. (Len(ch) - 1) : ch[k + 1] < ch[k]
            /\ \A k \in 1 .. Len(ch) :
                  ch[k] >= i - At(nodes, i).Length /\ ch[k] < i
            /\ ~HasNext(nodes, i, LastCursor(nodes, i, ItBegin(i)))

\* an updated tree with a leaf at an index above 0 and a parent of two or
\* more children whose range starts at index 0, so that the cursor wraps
C11_Witness ==
    /\ Updated
    /\ \E i \in 1 .. (Len(nodes) - 1) :
          IsLeaf(At(nodes, i)) /\ Children(nodes, i) = <<>>
    /\ \E i \in 1 .. (Len(nodes) - 1) :
          /\ At(nodes, i).Length = i
          /\ Len(Children(nodes, i)) >= 2
          /\ LastCursor(nodes, i, ItBegin(i)) = SizeMod - 1

RECURSIVE SumOfSubtrees(_, _)
SumOfSubtrees(t, kids) ==
    IF kids = <<>> THEN 0
    ELSE At(t, Head(kids)).Length + 1 + SumOfSubtrees(t, Tail(kids))

\* C12: after UpdateNodes() and any further UpdateNodes(), Sort() and
\* Reduce() calls the arities describe a single tree, every leaf has
\* Arity = Length = 0, the Length of every node is the sum of Length + 1 over
\* its children, the subtree of i is the range [i - Length(i), i], and the
\* root has Length = size - 1
C12_LengthIsSubtreeSize ==
    Updated =>
        /\ SingleTree(nodes)
        /\ \A i \in 0 .. (Len(nodes) - 1) :
              LET n == At(nodes, i) IN
              /\ n.Type \in LeafTypes => n.Arity = 0 /\ n.Length = 0
              /\ n.Length = SumOfSubtrees(nodes, Kids(nodes, i))
              /\ Span(nodes, i) = n.Length + 1
              /\ i - n.Length >= 0
        /\ nodes[Len(nodes)].Length = Len(nodes) - 1

\* a Sort() has run on a tree that a Reduce() had flattened before
C12_Witness ==
    /\ op = "Sort"
    /\ \E i \in 1 .. (Len(nodes) - 1) :
          At(nodes, i).Arity = 3 /\ At(nodes, i).Length = 3

\* C13: UpdateNodes() called on the tree a first UpdateNodes() call left
\* changes no field of any node and not the order of the nodes
C13_UpdateNodesIdempotent ==
    op = "UpdateNodes" => UpdateNodes(nodes) = nodes

\* UpdateNodes() has run on a tree of depth three that was already updated
C13_Witness ==
    /\ op = "UpdateNodes"
    /\ before = nodes
    /\ Len(nodes) = MaxNodes
    /\ nodes[Len(nodes)].Depth >= 3
    /\ \E i \in 0 .. (Len(nodes) - 1) : At(nodes, i).Parent # 0

\* the height of the subtree rooted at i as the arities give it
RECURSIVE Height(_, _)
RECURSIVE MaxHeight(_, _)
Height(t, i) == 1 + MaxHeight(t, Kids(t, i))
MaxHeight(t, kids) ==
    IF kids = <<>> THEN 0
    ELSE LET h == Height(t, Head(kids))
             m == MaxHeight(t, Tail(kids))
         IN IF h > m THEN h ELSE m

RECURSIVE MaxDepth(_, _)
MaxDepth(t, kids) ==
    IF kids = <<>> THEN 0
    ELSE LET h == At(t, Head(kids)).Depth
             m == MaxDepth(t, Tail(kids))
         IN IF h > m THEN h ELSE m

\* C14: after UpdateNodes() every leaf has Depth 1, every other node has
\* Depth 1 + the largest Depth among its children, and Tree::Depth() is the
\* height of the root
C14_DepthIsHeight ==
    Updated /\ SingleTree(nodes) =>
        /\ \A i \in 0 .. (Len(nodes) - 1) :
              LET n == At(nodes, i) IN
              /\ IsLeaf(n) => n.Depth = 1
              /\ ~IsLeaf(n) => n.Depth = 1 + MaxDepth(nodes, Kids(nodes, i))
        /\ Depth(nodes) = nodes[Len(nodes)].Depth
        /\ Depth(nodes) = Height(nodes, Len(nodes) - 1)

\* an updated tree of depth three whose root has children of different depth
C14_Witness ==
    /\ Updated
    /\ Depth(nodes) = 3
    /\ \E j \in 1 .. Len(Kids(nodes, Len(nodes) - 1)) :
          At(nodes, Kids(nodes, Len(nodes) - 1)[j]).Depth = 1

\* C15: Sort() applied to the tree a first Sort() left, with the same
\* argument, leaves the node array exactly as it is
C15_SortIdempotent ==
    op = "Sort" => Sort(nodes, arg[1], tieOrder) = nodes

\* the sequence with its elements in the opposite order
Reverse(q) == [k \in 1 .. Len(q) |-> q[Len(q) + 1 - k]]

\* the node sequences that the subtree rooted at i becomes when the children
\* of its commutative nodes are permuted
RECURSIVE VariantsOf(_, _)
VariantsOf(t, i) ==
    LET n == At(t, i)
        kids == Reverse(Kids(t, i))
        m == Len(kids)
        orders == IF IsCommutative(n)
                  THEN {p \in [1 .. m -> 1 .. m] :
                           \A a \in 1 .. m, b \in 1 .. m : a # b => p[a] # p[b]}
                  ELSE {[k \in 1 .. m |-> k]}
        all == UNION {VariantsOf(t, kids[k]) : k \in 1 .. m}
        choices == {c \in [1 .. m -> all] : \A k \in 1 .. m : c[k] \in VariantsOf(t, kids[k])}
    IN {Concat([k \in 1 .. m |-> c[p[k]]]) \o <<n>> : p \in orders, c \in choices}

\* the updated trees that differ from t only by a permutation of the children
\* of commutative nodes
Variants(t) == {UpdateNodes(v) : v \in VariantsOf(t, Len(t) - 1)}

\* C16: Sort() gives every tree that differs from the sorted one only by a
\* permutation of the children of commutative nodes the same node array
C16_SortCanonical ==
    op = "Sort" =>
        \A v \in Variants(before) : Sort(v, arg[1], tieOrder) = nodes

\* what a tree holds apart from the derived fields and the hashes
Content(t) == [k \in 1 .. Len(t) |-> <<t[k].Type, t[k].Arity, t[k].Value>>]

\* the trees the relaxed hash of a tree is compared with: the tree with the
\* children of commutative nodes permuted, and the tree as Sort() leaves it
Reorderings(t, ties) == Variants(t) \cup {Sort(t, strict, ties) : strict \in BOOLEAN}

\* C17: the root hash Hash(Relaxed) computes is the one it computes on
\* Sort(t) and on every tree obtained from t by permuting the children of
\* commutative nodes
C17_RelaxedHashIgnoresOrder ==
    op = "Hash" /\ arg = <<"Relaxed">> =>
        \A v \in Reorderings(before, tieOrder) :
            HashValue(Hash(v, "Relaxed")) = HashValue(nodes)

\* Hash(Relaxed) has run on a tree that Sort() lays out differently and that
\* has a reordering whose children of the root differ in content
C17_Witness ==
    /\ op = "Hash" /\ arg = <<"Relaxed">>
    /\ Content(Sort(before, FALSE, tieOrder)) # Content(before)
    /\ \E v \in Variants(before) : Content(v) # Content(before)
    /\ Len(before) = MaxNodes

\* the trees with the structure and the HashValues of t and other leaf Values
OtherValues(t) ==
    {SetCoefficients(t, c) :
        c \in {d \in [1 .. CoefficientsCount(t) -> Values] : d # GetCoefficients(t)}}

\* C18: with a hash function without collisions,
\* Hash(Strict) gives two trees of the same structure and HashValues
\* different root hashes whenever a leaf Value differs, and Hash(Relaxed)
\* gives them equal root hashes
C18_StrictSeparatesValues ==
    op = "Hash" =>
        \A u \in OtherValues(before) :
            /\ arg = <<"Strict">> => HashValue(Hash(u, "Strict")) # HashValue(nodes)
            /\ arg = <<"Relaxed">> => HashValue(Hash(u, "Relaxed")) = HashValue(nodes)

\* u holds what some reordering of the children of commutative nodes of t holds
IsReordering(u, t) == Content(u) \in {Content(v) : v \in Variants(t)}

\* C18, amended: with a hash function without collisions, Hash(Strict) gives
\* two trees of the same structure and HashValues different root hashes
\* whenever a leaf Value differs, unless one tree is the other with the
\* children of commutative nodes permuted, and then the root hashes are
\* equal; Hash(Relaxed) gives them equal root hashes
C18_StrictSeparatesValuesUpToOrder ==
    op = "Hash" =>
        \A u \in OtherValues(before) :
            /\ arg = <<"Strict">> =>
                  (HashValue(Hash(u, "Strict")) = HashValue(nodes)
                      <=> IsReordering(u, before))
            /\ arg = <<"Relaxed">> => HashValue(Hash(u, "Relaxed")) = HashValue(nodes)

\* Hash(Strict) has run on a tree with two other assignments of leaf values,
\* one that is a reordering of the tree and one that is not
C18_Witness ==
    /\ op = "Hash" /\ arg = <<"Strict">>
    /\ \E u \in OtherValues(before) : IsReordering(u, before)
    /\ \E u \in OtherValues(before) :
          ~IsReordering(u, before) /\ HashValue(Hash(u, "Strict")) # HashValue(nodes)

\* the index of the k-th leaf of t in array order
LeafAt(t, k) ==
    CHOOSE i \in 0 .. (Len(t) - 1) :
        /\ At(t, i).Type \in LeafTypes
        /\ Cardinality({j \in 0 .. i : At(t, j).Type \in LeafTypes}) = k

\* C19: GetCoefficients() returns the Value of every leaf in array order,
\* CoefficientsCount() values in all; SetCoefficients(c) changes no field
\* but Value, GetCoefficients() returns c after it, and
\* SetCoefficients(GetCoefficients()) leaves the node array as it is
C19_CoefficientRoundTrip ==
    /\ Updated =>
          /\ Len(GetCoefficients(nodes)) = CoefficientsCount(nodes)
          /\ \A k \in 1 .. Len(GetCoefficients(nodes)) :
                GetCoefficients(nodes)[k] = At(nodes, LeafAt(nodes, k)).Value
          /\ SetCoefficients(nodes, GetCoefficients(nodes)) = nodes
    /\ op = "GetCoefficients" =>
          /\ nodes = before
          /\ result = [k \in 1 .. CoefficientsCount(nodes) |->
                          At(nodes, LeafAt(nodes, k)).Value]
    /\ op = "SetCoefficients" =>
          /\ GetCoefficients(nodes) = arg
          /\ Len(nodes) = Len(before)
          /\ \A k \in 1 .. Len(nodes) :
                [nodes[k] EXCEPT !.Value = before[k].Value] = before[k]
          /\ arg = GetCoefficients(before) => nodes = before

\* SetCoefficients has been called with what GetCoefficients() returns for a
\* tree whose leaves hold different values
C19_Witness ==
    /\ op = "SetCoefficients"
    /\ arg = GetCoefficients(before)
    /\ Len(arg) >= 2
    /\ \E k \in 2 .. Len(arg) : arg[k] # arg[1]
    /\ \E k \in 1 .. Len(nodes) : IsConstant(nodes[k])
    /\ \E k \in 1 .. Len(nodes) : IsVariable(nodes[k])

\* the fields of a node that UpdateNodes() does not compute
Payload(n) == <<n.Type, n.IsEnabled, n.HashValue, n.CalculatedHashValue, n.Value>>

\* C20: Subtree(i) returns a tree of the Length(i) + 1 nodes of the range
\* [i - Length(i), i] in their order, node i last, with the derived fields
\* recomputed, and leaves the tree it is called on unchanged
C20_SubtreeHoldsTheRange ==
    op = "Subtree" =>
        LET i == arg[1]
            len == At(before, i).Length
        IN /\ nodes = before
           /\ Len(result) = len + 1
           /\ \A k \in 1 .. Len(result) :
                 k <= len + 1 => Payload(result[k]) = Payload(before[i - len + k])
           /\ UpdateNodes(result) = result

\* ================================================================ SpecReduce
MaxReduceNodes == 7    \* the largest tree handed to Reduce() in SpecReduce

\* the nodes of the trees of SpecReduce: weighted variables under Add and Sub
ReduceSymbols ==
    {MakeNode("Variable", w) : w \in Weights} \cup {MakeNode("Add", 1), MakeNode("Sub", 1)}

ReduceTrees ==
    {t \in UNION {[1 .. n -> ReduceSymbols] : n \in 1 .. MaxReduceNodes} :
        Roots(t, Len(t)) = 1}

\* Tree(list) for the deeper trees given to Reduce()
InitReduce ==
    /\ recombinator = "Plus"
    /\ Maximization = FALSE
    /\ population = <<>>
    /\ fitnessEvaluations = 0
    /\ lastEvaluations = 0
    /\ maxSelectionPressure = 0
    /\ baseTerminate = FALSE
    /\ prepared = FALSE
    /\ triggered = 0
    /\ sincePrepare = 0
    /\ trial = [t \in Trials |-> IdleTrial]
    /\ NoCost
    /\ nodes \in ReduceTrees
    /\ tieOrder \in {"keep", "reverse"}
    /\ op = "Tree"
    /\ before = <<>>
    /\ arg = <<>>
    /\ result = <<>>

\* a caller that runs UpdateNodes() on the constructed tree and then Reduce()
NextReduce ==
    \/ CallUpdateNodes
    \/ op # "Tree" /\ CallReduce

SpecReduce == InitReduce /\ [][NextReduce]_vars

\* ---------------------------------------------------------------- claims on Reduce
\* node k is a child of the commutative node i with the HashValue of i
Nested(t, i, k) ==
    /\ ~IsLeaf(At(t, i)) /\ IsCommutative(At(t, i))
    /\ At(t, k).HashValue = At(t, i).HashValue

\* the nodes of t that have the HashValue of their commutative parent
Collapsed(t) ==
    {k \in 0 .. (Len(t) - 1) :
        \E i \in 0 .. (Len(t) - 1) :
            /\ Nested(t, i, k)
            /\ \E j \in 1 .. Len(Kids(t, i)) : Kids(t, i)[j] = k}

\* the children of i once every nested child is replaced by its children
RECURSIVE FlatKids(_, _)
FlatKids(t, i) ==
    LET kids == Kids(t, i)
    IN Concat([j \in 1 .. Len(kids) |->
                  IF Nested(t, i, kids[j]) THEN FlatKids(t, kids[j]) ELSE <<kids[j]>>])

\* the index a node of t that is not collapsed has after the collapsed ones
\* are erased
NewIndex(t, j) == j - Cardinality({k \in Collapsed(t) : k < j})

\* the indices of the nodes of t that are not collapsed, ascending
RECURSIVE Survivors(_, _)
Survivors(t, i) ==
    IF i >= Len(t) THEN <<>>
    ELSE (IF i \in Collapsed(t) THEN <<>> ELSE <<i>>) \o Survivors(t, i + 1)

\* C21: after Reduce() on an updated tree no commutative node has a child
\* with its own HashValue, the nodes that had one are gone, their children
\* are children of the parent, whose Arity is the number of children it has
\* then, and a tree without such a child comes back with the same node array
C21_ReduceFlattens ==
    op = "Reduce" =>
        LET surv == Survivors(before, 0) IN
        /\ SingleTree(nodes)
        /\ Collapsed(nodes) = {}
        /\ Len(nodes) = Len(surv)
        /\ \A m \in 1 .. Len(surv) :
              LET old == At(before, surv[m])
                  flat == FlatKids(before, surv[m])
              IN /\ Payload(nodes[m]) = Payload(old)
                 /\ nodes[m].Arity = Len(flat)
                 /\ Kids(nodes, m - 1) = [j \in 1 .. Len(flat) |-> NewIndex(before, flat[j])]
        /\ Collapsed(before) = {} => nodes = before

\* Reduce() has collapsed two nodes, one of them a child of the other
C21_Witness ==
    /\ op = "Reduce"
    /\ \E k \in Collapsed(before) :
          \E j \in Collapsed(before) : At(before, j).Parent = k
    /\ nodes[Len(nodes)].Arity = 4

LeafSequence(t) ==
    LET leaves == SelectSeq(t, IsLeaf)
    IN [k \in 1 .. Len(leaves) |-> <<leaves[k].Type, leaves[k].Value>>]

RECURSIVE SumOfArities(_)
SumOfArities(t) == IF t = <<>> THEN 0 ELSE Head(t).Arity + SumOfArities(Tail(t))

\* C28: after Reduce() on an updated tree the leaves are the same in the same
\* order, the number of nodes has dropped by the number of collapsed nodes,
\* the arities sum to size - 1 and describe a single tree, and the subtree
\* of every node i is the range [i - Length(i), i]
C28_ReduceKeepsTreeWellFormed ==
    op = "Reduce" =>
        /\ Len(nodes) = Len(before) - Cardinality(Collapsed(before))
        /\ LeafSequence(nodes) = LeafSequence(before)
        /\ SumOfArities(nodes) = Len(nodes) - 1
        /\ SingleTree(nodes)
        /\ \A i \in 0 .. (Len(nodes) - 1) :
              /\ Span(nodes, i) = At(nodes, i).Length + 1
              /\ i - At(nodes, i).Length >= 0
        /\ \A i \in 0 .. (Len(nodes) - 1) : At(nodes, i).IsEnabled

\* Reduce() has collapsed nodes on two levels of a tree with different leaves
C28_Witness ==
    /\ op = "Reduce"
    /\ Cardinality(Collapsed(before)) >= 2
    /\ \E k \in Collapsed(before) : At(before, k).Parent \in Collapsed(before)
    /\ \E k \in 2 .. Len(LeafSequence(nodes)) : LeafSequence(nodes)[k] # LeafSequence(nodes)[1]

\* ---------------------------------------------------------------- claims on Sort, continued
\* what identifies a node apart from the fields Sort() and UpdateNodes() derive
Identity(n) == <<n.Type, n.Arity, n.IsEnabled, n.HashValue, n.Value>>

\* how many nodes of t have the identity x
Occurrences(t, x) == Cardinality({k \in 1 .. Len(t) : Identity(t[k]) = x})

\* the contents of the child subtrees of node i, from the first child to the last
ChildContents(t, i) ==
    LET kids == Reverse(Kids(t, i))
    IN [k \in 1 .. Len(kids) |-> Content(SubtreeNodes(t, kids[k]))]

\* C26: Sort() leaves the number of nodes, the multiset of nodes and the root
\* as they were, the result is a single tree in which the subtree of every
\* node is a contiguous range, and it is the tree before the call with whole
\* child subtrees of commutative nodes permuted, the children of every other
\* node in their order
C26_SortPermutesCommutativeChildren ==
    op = "Sort" =>
        /\ Len(nodes) = Len(before)
        /\ \A k \in 1 .. Len(before) :
              Occurrences(nodes, Identity(before[k])) = Occurrences(before, Identity(before[k]))
        /\ SingleTree(nodes)
        /\ Identity(nodes[Len(nodes)]) = Identity(before[Len(before)])
        /\ \A i \in 0 .. (Len(nodes) - 1) :
              /\ Span(nodes, i) = At(nodes, i).Length + 1
              /\ i - At(nodes, i).Length >= 0
        /\ IsReordering(nodes, before)
        /\ ~IsCommutative(nodes[Len(nodes)]) =>
              \A k \in 1 .. Len(ChildContents(nodes, Len(nodes) - 1)) :
                  \E v \in Variants(SubtreeNodes(before, Reverse(Kids(before, Len(before) - 1))[k])) :
                      Content(v) = ChildContents(nodes, Len(nodes) - 1)[k]

\* Sort() has reordered the children of a commutative node below a root that
\* is not commutative and has two children of different content
C26_Witness ==
    /\ op = "Sort"
    /\ Content(nodes) # Content(before)
    /\ nodes[Len(nodes)].Type = "Sub"
    /\ ChildContents(nodes, Len(nodes) - 1)[1] # ChildContents(nodes, Len(nodes) - 1)[2]

\* ---------------------------------------------------------------- claims on Parent
\* the positions the loop over Children(i) yields
ChildPositions(t, i) ==
    IF i = 0 THEN {} ELSE {Children(t, i)[k] : k \in 1 .. Len(Children(t, i))}

\* every node of t below the root has the index of its immediate parent
ParentsOfChildren(t) ==
    \A j \in 0 .. (Len(t) - 2) :
        \A i \in 0 .. (Len(t) - 1) :
            At(t, j).Parent = i <=> j \in ChildPositions(t, i)

\* C27: after UpdateNodes() the Parent of every node below the root is the
\* index i whose Children(i) yields the node, and the Parent of the root is
\* the root sentinel: no index of the tree, and the same value in the tree
\* and in a tree that Subtree() has made of some of its nodes
C27_ParentIsImmediateParent ==
    /\ Updated => ParentsOfChildren(nodes)
    /\ Updated => nodes[Len(nodes)].Parent \notin 0 .. (Len(nodes) - 1)
    /\ op = "Subtree" /\ SingleTree(result) =>
          /\ ParentsOfChildren(result)
          /\ result[Len(result)].Parent = nodes[Len(nodes)].Parent

\* ================================================================ SpecIterator
MaxVisits == 3    \* the loop bodies a caller runs before it gives up a loop

\* operator++(int): a copy of the iterator is advanced and returned; self is
\* the index_ of the iterator the operator was called on, after the call
PostIncrement(t, idx) ==
    LET copy == idx
        advanced == ItNext(t, copy)
    IN [self |-> idx, returned |-> advanced]

\* operator++(): the iterator is advanced and a reference to it is returned
PreIncrement(t, idx) ==
    LET advanced == ItNext(t, idx)
    IN [self |-> advanced, returned |-> advanced]

\* auto it = Children(i): arg holds parentIndex_, index_ and the index_ of
\* the iterator the last call returned, result the positions of the loop
\* bodies run so far
CallChildren(i) ==
    /\ op \notin {"none", "Tree"}
    /\ i > 0 /\ i < Len(nodes)
    /\ op' = "Children"
    /\ before' = nodes
    /\ arg' = <<i, ItBegin(i), ItBegin(i)>>
    /\ result' = <<>>
    /\ UNCHANGED <<nodes, tieOrder, recVars, costVars>>

\* one turn of for (...; it.HasNext(); ++it) with an empty body
LoopPreIncrement ==
    /\ op \in {"Children", "++it"}
    /\ HasNext(nodes, arg[1], arg[2])
    /\ LET r == PreIncrement(nodes, arg[2])
       IN arg' = <<arg[1], r.self, r.returned>>
    /\ result' = Append(result, arg[2])
    /\ op' = "++it"
    /\ UNCHANGED <<nodes, before, tieOrder, recVars, costVars>>

\* one turn of for (...; it.HasNext(); it++) with an empty body
LoopPostIncrement ==
    /\ op \in {"Children", "it++"}
    /\ Len(result) < MaxVisits
    /\ HasNext(nodes, arg[1], arg[2])
    /\ LET r == PostIncrement(nodes, arg[2])
       IN arg' = <<arg[1], r.self, r.returned>>
    /\ result' = Append(result, arg[2])
    /\ op' = "it++"
    /\ UNCHANGED <<nodes, before, tieOrder, recVars, costVars>>

NextIterator ==
    \/ CallUpdateNodes
    \/ \E i \in 1 .. (MaxNodes - 1) : CallChildren(i)
    \/ LoopPreIncrement
    \/ LoopPostIncrement

SpecIterator == InitTree /\ [][NextIterator]_vars

\* C29: it++ leaves the iterator where ++it would leave it, Length + 1 below
\* the child it was at, and returns the position it had before; the loop
\* with it++ runs its body once for each child of the node
C29_PostIncrementAdvances ==
    op = "it++" =>
        LET at == result[Len(result)] IN
        /\ arg[2] = PreIncrement(nodes, at).self
        /\ arg[2] = SizeSub(at, At(nodes, at).Length + 1)
        /\ arg[3] = at
        /\ Len(result) <= At(nodes, arg[1]).Arity
        /\ \A a \in 1 .. Len(result), b \in 1 .. Len(result) : a # b => result[a] # result[b]

\* ================================================================ TinyCostFunction
\* TinyCostFunction<CostFunctor, JetT, StorageOrder>::Evaluate.  The wrapped
\* functor is the linear r(p) = A * p - b, evaluated on scalars or on dual
\* numbers (a value a and Stride tangents v); it may report failure on any
\* call.

Stride == 2           \* JetT::DIMENSION, the lanes of a dual number
MaxParameters == 3    \* the most parameters a functor has

ResidualCounts == {1, 2}
Scalars == {1, 2}
StorageOrders == {"RowMajor", "ColMajor"}

Lanes == 1 .. Stride

\* the functors: every matrix A over Scalars, two offsets b
Functors ==
    UNION {UNION {
        {[NumParameters |-> n, NumResiduals |-> m, A |-> a, b |-> [k \in 1 .. m |-> c * k]] :
            a \in [1 .. m -> [1 .. n -> Scalars]], c \in {0, 1}} :
        m \in ResidualCounts} : n \in 0 .. MaxParameters}

\* the parameter vectors given to a functor of n parameters
ParameterVectors(n) == {[j \in 1 .. n |-> 1], [j \in 1 .. n |-> j + 1]}

RECURSIVE Sum(_)
Sum(q) == IF q = <<>> THEN 0 ELSE Head(q) + Sum(Tail(q))

\* functor_(&parameters, residuals) on scalars: the residuals A * p - b
FunctorValues(f, p) ==
    [k \in 1 .. f.NumResiduals |->
        Sum([j \in 1 .. f.NumParameters |-> f.A[k][j] * p[j]]) - f.b[k]]

\* functor_(&ptr, &outputJets[0]) on dual numbers: value and tangents of
\* every residual
FunctorJets(f, jets) ==
    [k \in 1 .. f.NumResiduals |->
        [a |-> Sum([j \in 1 .. f.NumParameters |-> f.A[k][j] * jets[j].a]) - f.b[k],
         v |-> [l \in Lanes |->
                   Sum([j \in 1 .. f.NumParameters |-> f.A[k][j] * jets[j].v[l]])]]]

ZeroTangent == [l \in Lanes |-> 0]

\* the number of strides; the float division is exact for the counts used
NumStrides(numParameters) == (numParameters + Stride - 1) \div Stride

\* a seeding loop that starts at parameter 0 in every stride
RECURSIVE SeedLoopFromZero(_, _, _, _)
SeedLoopFromZero(jets, j, activeParameterCount, cursor) ==
    IF j >= Len(jets) THEN jets
    ELSE IF activeParameterCount < Stride
         THEN SeedLoopFromZero(
                  [jets EXCEPT ![j + 1].v = [ZeroTangent EXCEPT ![activeParameterCount + 1] = 1]],
                  j + 1, activeParameterCount + 1, cursor)
         ELSE SeedLoopFromZero([jets EXCEPT ![j + 1].v = ZeroTangent],
                               j + 1, activeParameterCount, cursor)

\* the loop that sets the tangents of inputJets for one stride
RECURSIVE SeedLoop(_, _, _, _)
SeedLoop(jets, j, activeParameterCount, cursor) ==
    IF j >= Len(jets) THEN jets
    ELSE IF activeParameterCount < Stride /\ j >= cursor
         THEN SeedLoop(
                  [jets EXCEPT ![j + 1].v = [ZeroTangent EXCEPT ![activeParameterCount + 1] = 1]],
                  j + 1, activeParameterCount + 1, cursor)
         ELSE SeedLoop([jets EXCEPT ![j + 1].v = ZeroTangent],
                       j + 1, activeParameterCount, cursor)

\* jMap(k, j): the place of entry (k, j) in the buffer, counted from 1
JIndex(storage, k, j, numResiduals, numParameters) ==
    IF storage = "RowMajor" THEN k * numParameters + j + 1
    ELSE j * numResiduals + k + 1

\* jMap(k, j) = outputJets[k].v[activeParameterCount] for every residual k
RECURSIVE CopyColumn(_, _, _, _, _, _)
CopyColumn(c, k, j, activeParameterCount, outputJets, pass) ==
    IF k >= Len(outputJets) THEN c
    ELSE CopyColumn(
             [c EXCEPT
                 !.jacobian[JIndex(c.storage, k, j, Len(outputJets), c.numParameters)] =
                     outputJets[k + 1].v[activeParameterCount + 1],
                 !.log = Append(@, [k |-> k, j |-> j, pass |-> pass,
                                    lane |-> activeParameterCount])],
             k + 1, j, activeParameterCount, outputJets, pass)

\* a copy loop that leaves the column cursor where it was
RECURSIVE CopyLoopKeepCursor(_, _, _, _, _)
CopyLoopKeepCursor(c, j, activeParameterCount, outputJets, pass) ==
    IF j >= c.numParameters THEN c
    ELSE IF activeParameterCount < Stride
         THEN CopyLoopKeepCursor(CopyColumn(c, 0, j, activeParameterCount, outputJets, pass),
                                 j + 1, activeParameterCount + 1, outputJets, pass)
         ELSE CopyLoopKeepCursor(c, j + 1, activeParameterCount, outputJets, pass)

\* the loop that copies the columns of one stride into the jacobian
RECURSIVE CopyLoop(_, _, _, _, _)
CopyLoop(c, j, activeParameterCount, outputJets, pass) ==
    IF j >= c.numParameters THEN c
    ELSE IF activeParameterCount < Stride
         THEN CopyLoop([CopyColumn(c, 0, j, activeParameterCount, outputJets, pass)
                           EXCEPT !.cursor = @ + 1],
                       j + 1, activeParameterCount + 1, outputJets, pass)
         ELSE CopyLoop(c, j + 1, activeParameterCount, outputJets, pass)

\* the residuals are copied in every stride
LastPassOrAny(pass, numStrides) == TRUE

\* the test that guards the copy of the residuals
LastPass(pass, numStrides) == pass = numStrides - 1

IdleFrame == [pc |-> "idle"]

\* a TinyCostFunction constructed on a functor, and the buffers of a caller
InitCost ==
    /\ recombinator = "Plus"
    /\ Maximization = FALSE
    /\ population = <<>>
    /\ fitnessEvaluations = 0
    /\ lastEvaluations = 0
    /\ maxSelectionPressure = 0
    /\ baseTerminate = FALSE
    /\ prepared = FALSE
    /\ triggered = 0
    /\ sincePrepare = 0
    /\ trial = [t \in Trials |-> IdleTrial]
    /\ NoTree
    /\ functor \in Functors
    /\ parameters \in ParameterVectors(functor.NumParameters)
    /\ residuals = [k \in 1 .. functor.NumResiduals |-> 0]
    /\ jacobian = <<>>
    /\ frame = IdleFrame
    /\ writes = [residuals |-> [k \in 1 .. functor.NumResiduals |-> 0], jacobian |-> <<>>]

\* Evaluate(parameters, residuals, nullptr): the functor is called on the
\* caller's buffers; a functor that fails may have written residuals or not
EvaluateWithoutJacobian(ok, wrote) ==
    /\ frame.pc = "idle"
    /\ ok => wrote
    /\ residuals' = IF wrote THEN FunctorValues(functor, parameters) ELSE residuals
    /\ writes' = IF wrote
                 THEN [writes EXCEPT !.residuals = [k \in DOMAIN @ |-> @[k] + 1]]
                 ELSE writes
    /\ frame' = [pc |-> "done", requested |-> FALSE, ret |-> ok, outcomes |-> <<ok>>]
    /\ UNCHANGED <<functor, parameters, jacobian, treeVars, recVars>>

\* Evaluate with a jacobian buffer, up to the loop over the strides.  With
\* no parameters &inputJets[0] indexes an empty vector: a build with
\* container assertions stops there, any other build goes on
EvaluateBegin(storage, hardened) ==
    /\ frame.pc = "idle"
    /\ jacobian' = [x \in 1 .. (functor.NumResiduals * functor.NumParameters) |-> 0]
    /\ frame' = IF hardened /\ functor.NumParameters = 0
                THEN [pc |-> "abort", requested |-> TRUE]
                ELSE [pc |-> "loop",
                      requested |-> TRUE,
                      storage |-> storage,
                      inputJets |-> [j \in 1 .. functor.NumParameters |->
                                        [a |-> parameters[j], v |-> ZeroTangent]],
                      currentDerivativeSectionCursor |-> 0,
                      numStrides |-> NumStrides(functor.NumParameters),
                      pass |-> 0,
                      outcomes |-> <<>>,
                      seeds |-> <<>>]
    /\ UNCHANGED <<functor, parameters, residuals, writes, treeVars, recVars>>

\* one turn of the loop over the strides
EvaluateStride(ok) ==
    /\ frame.pc = "loop"
    /\ frame.pass < frame.numStrides
    /\ LET cursor == frame.currentDerivativeSectionCursor
           inputJets == SeedLoop(frame.inputJets, 0, 0, cursor)
           outputJets == FunctorJets(functor, inputJets)
           copied == CopyLoop([jacobian |-> jacobian,
                               log |-> writes.jacobian,
                               cursor |-> cursor,
                               storage |-> frame.storage,
                               numParameters |-> functor.NumParameters],
                              cursor, 0, outputJets, frame.pass)
           seeded == Append(frame.seeds, [j \in 1 .. Len(inputJets) |-> inputJets[j].v])
       IN IF ~ok
          THEN /\ frame' = [frame EXCEPT !.pc = "done",
                                         !.inputJets = inputJets,
                                         !.outcomes = Append(@, FALSE),
                                         !.seeds = seeded] @@ [ret |-> FALSE]
               /\ UNCHANGED <<residuals, jacobian, writes>>
          ELSE /\ jacobian' = copied.jacobian
               /\ residuals' = IF LastPass(frame.pass, frame.numStrides)
                               THEN [k \in 1 .. Len(outputJets) |-> outputJets[k].a]
                               ELSE residuals
               /\ writes' = [residuals |->
                                 IF LastPass(frame.pass, frame.numStrides)
                                 THEN [k \in DOMAIN writes.residuals |-> writes.residuals[k] + 1]
                                 ELSE writes.residuals,
                             jacobian |-> copied.log]
               /\ frame' = [frame EXCEPT !.inputJets = inputJets,
                                         !.currentDerivativeSectionCursor = copied.cursor,
                                         !.pass = @ + 1,
                                         !.outcomes = Append(@, TRUE),
                                         !.seeds = seeded]
    /\ UNCHANGED <<functor, parameters, treeVars, recVars>>

\* the loop is over: return true
EvaluateReturn ==
    /\ frame.pc = "loop"
    /\ frame.pass >= frame.numStrides
    /\ frame' = [frame EXCEPT !.pc = "done"] @@ [ret |-> TRUE]
    /\ UNCHANGED <<functor, parameters, residuals, jacobian, writes, treeVars, recVars>>

NextCost ==
    \/ \E ok \in BOOLEAN, wrote \in BOOLEAN : EvaluateWithoutJacobian(ok, wrote)
    \/ \E storage \in StorageOrders, hardened \in BOOLEAN : EvaluateBegin(storage, hardened)
    \/ \E ok \in BOOLEAN : EvaluateStride(ok)
    \/ EvaluateReturn

SpecCost == InitCost /\ [][NextCost]_vars

\* ---------------------------------------------------------------- claims on Evaluate
\* Evaluate has returned; requested tells whether a jacobian was asked for
Returned(requested, ret) ==
    frame.pc = "done" /\ frame.requested = requested /\ frame.ret = ret

UnitTangent(lane) == [l \in Lanes |-> IF l = lane + 1 THEN 1 ELSE 0]

\* C22: after a successful Evaluate with a jacobian every write went to an
\* entry (k, j) of the numResiduals x n matrix, took lane j mod S of stride
\* j div S, in which parameter j alone had a tangent in that lane, a unit
\* one; every entry was written exactly once; and the matrix is the A of
\* the linear functor
C22_JacobianOfLinearFunctor ==
    Returned(TRUE, TRUE) =>
        LET n == functor.NumParameters
            m == functor.NumResiduals
            log == writes.jacobian
        IN /\ Len(jacobian) = m * n
           /\ \A x \in 1 .. Len(log) :
                 /\ log[x].k \in 0 .. (m - 1)
                 /\ log[x].j \in 0 .. (n - 1)
                 /\ log[x].lane = log[x].j % Stride
                 /\ log[x].pass = log[x].j \div Stride
                 /\ frame.seeds[log[x].pass + 1][log[x].j + 1] = UnitTangent(log[x].lane)
                 /\ \A j \in 0 .. (n - 1) :
                       j # log[x].j => frame.seeds[log[x].pass + 1][j + 1][log[x].lane + 1] = 0
           /\ \A k \in 0 .. (m - 1), j \in 0 .. (n - 1) :
                 /\ Cardinality({x \in 1 .. Len(log) : log[x].k = k /\ log[x].j = j}) = 1
                 /\ jacobian[JIndex(frame.storage, k, j, m, n)] = functor.A[k + 1][j + 1]

\* a jacobian of two rows that differ and more columns than lanes, the last
\* stride a partial one, has been computed
C22_Witness ==
    /\ Returned(TRUE, TRUE)
    /\ functor.NumParameters > Stride
    /\ functor.NumParameters % Stride # 0
    /\ functor.NumResiduals = 2
    /\ functor.A[1] # functor.A[2]
    /\ functor.A[1][1] # functor.A[1][functor.NumParameters]

\* C23: in an Evaluate with a jacobian no functor call follows a failed one;
\* after a failed call Evaluate has returned false and has not written the
\* residuals; it returns true only after every stride's call succeeded
C23_FirstFailedStrideReturnsFalse ==
    frame.pc \in {"loop", "done"} /\ frame.requested =>
        LET calls == frame.outcomes IN
        /\ \A x \in 1 .. (Len(calls) - 1) : calls[x]
        /\ Len(calls) <= frame.numStrides
        /\ Len(calls) > 0 /\ ~calls[Len(calls)] =>
              /\ Returned(TRUE, FALSE)
              /\ residuals = [k \in 1 .. functor.NumResiduals |-> 0]
              /\ \A k \in 1 .. functor.NumResiduals : writes.residuals[k] = 0
        /\ Returned(TRUE, TRUE) =>
              /\ Len(calls) = frame.numStrides
              /\ \A x \in 1 .. Len(calls) : calls[x]
        /\ Returned(TRUE, FALSE) => Len(calls) > 0 /\ ~calls[Len(calls)]

\* the functor failed in the second stride, after the columns of the first
\* stride were written
C23_Witness ==
    /\ Returned(TRUE, FALSE)
    /\ frame.outcomes = <<TRUE, FALSE>>
    /\ writes.jacobian # <<>>

\* C24: after a successful Evaluate, with or without a jacobian, the
\* residuals buffer holds the values of the functor at the parameters,
\* written once
C24_ResidualsFilledOnSuccess ==
    frame.pc = "done" /\ frame.ret =>
        /\ residuals = FunctorValues(functor, parameters)
        /\ \A k \in 1 .. functor.NumResiduals : writes.residuals[k] = 1

\* the least number of strides of width S that cover n parameters
Ceil(n, S) == CHOOSE c \in 0 .. n : c * S >= n /\ (c = 0 \/ (c - 1) * S < n)

Min(a, b) == IF a < b THEN a ELSE b

\* C25: a successful Evaluate with a jacobian has called the functor
\* ceil(n / S) times; in stride p the parameters p*S .. min((p+1)*S, n) - 1
\* had the unit tangents of lanes 0, 1, ... and all others zero tangents;
\* only the last stride has fewer than S of them; the column cursor is n
C25_StridesSeedUnitTangents ==
    Returned(TRUE, TRUE) =>
        LET n == functor.NumParameters IN
        /\ Len(frame.outcomes) = Ceil(n, Stride)
        /\ Len(frame.seeds) = Ceil(n, Stride)
        /\ \A p \in 0 .. (Len(frame.seeds) - 1) :
              /\ \A j \in 0 .. (n - 1) :
                    frame.seeds[p + 1][j + 1] =
                        IF p * Stride <= j /\ j < Min((p + 1) * Stride, n)
                        THEN UnitTangent(j - p * Stride)
                        ELSE ZeroTangent
              /\ p < Len(frame.seeds) - 1 => (p + 1) * Stride <= n
        /\ frame.currentDerivativeSectionCursor = n

\* two strides have run, the first a full one and the second a partial one
C25_Witness ==
    /\ Returned(TRUE, TRUE)
    /\ Len(frame.outcomes) = 2
    /\ functor.NumParameters = Stride + 1

\* ================================================================ SpecLive
\* A driver that keeps running OffspringSelection trials and starts the next
\* generation only after Terminate() has become true.  The Evaluator's counter
\* is capped at LiveCap; a generation is started only while the counter has
\* room for the evaluations that make any pressure up to MaxPressure exceeded.
GenerationEvals == MaxPressure * PopSize + 1
LiveCap == 2 * GenerationEvals
LiveDoubles == {0 - 1, 1}
LiveTrials == {1}    \* the driver runs one trial at a time

\* a trial that triggers starts
TriggeredBegin ==
    \E t \in LiveTrials, s1 \in Samples, s2 \in Samples,
       pCrossover \in Probabilities, pMutation \in Probabilities,
       gx \in ChildGenotypes, gm \in ChildGenotypes :
        /\ Trigger(s1, pCrossover) \/ Trigger(s2, pMutation)
        /\ Room(LiveCap, s1, s2, pCrossover, pMutation)
        /\ OSBegin(t, s1, s2, pCrossover, pMutation, 1, 1, gx, gm)

\* a trial that does not trigger
UntriggeredBegin ==
    \E t \in LiveTrials, s1 \in Samples, s2 \in Samples,
       pCrossover \in Probabilities, pMutation \in Probabilities,
       gx \in ChildGenotypes, gm \in ChildGenotypes :
        /\ ~(Trigger(s1, pCrossover) \/ Trigger(s2, pMutation))
        /\ OSBegin(t, s1, s2, pCrossover, pMutation, 1, 1, gx, gm)

\* the driver starts the next generation
NextGeneration ==
    /\ ~prepared \/ Terminate \/ population = <<>>
    /\ fitnessEvaluations + GenerationEvals <= LiveCap
    /\ \E pop \in ConcPopulations : OSPrepare(pop)

NextLive ==
    \/ TriggeredBegin
    \/ UntriggeredBegin
    \/ \E t \in LiveTrials, f \in LiveDoubles : OSEvaluate(t, f)
    \/ \E t \in LiveTrials : OSReturn(t)
    \/ NextGeneration

\* a call of operator() that has started runs to its end, and trials that
\* trigger keep being started
FairLive ==
    /\ SF_vars(TriggeredBegin)
    /\ WF_vars(\E t \in LiveTrials, f \in LiveDoubles : OSEvaluate(t, f))
    /\ WF_vars(\E t \in LiveTrials : OSReturn(t))

SpecLive == InitConc /\ [][NextLive]_vars /\ FairLive

\* the step is a Prepare call
PrepareStep ==
    /\ prepared'
    /\ lastEvaluations' = fitnessEvaluations
    /\ fitnessEvaluations' = fitnessEvaluations
    /\ sincePrepare' = 0 /\ triggered' = 0

\* C30: every finished triggered trial has called the Evaluator exactly once,
\* accepted or rejected; SelectionPressure() does not decrease in a step
\* that is not a Prepare; after a Prepare with a non-empty population
\* Terminate() eventually is true; and once true it stays true in every
\* step that is not a Prepare
C30_StallDetectionTerminates ==
    /\ [](\A t \in Trials :
            trial[t].pc = "done" /\ (trial[t].doCrossover \/ trial[t].doMutation) =>
                trial[t].evaluations = 1)
    /\ [][PrepareStep \/
          SelectionPressure'.num * SelectionPressure.den >=
              SelectionPressure.num * SelectionPressure'.den]_vars
    /\ ((prepared /\ population # <<>>) ~> Terminate)
    /\ [][Terminate => Terminate' \/ PrepareStep]_vars

\* the pressure alone has made Terminate() true in the second generation,
\* the last candidate a rejected one
C30_Witness ==
    /\ prepared /\ population # <<>>
    /\ ~baseTerminate /\ Terminate
    /\ lastEvaluations > 1
    /\ sincePrepare > maxSelectionPressure * Len(population)
    /\ \E t \in LiveTrials :
          trial[t].pc = "done" /\ trial[t].evaluations = 1 /\ ~trial[t].ret.has
====
